---------------------------- MODULE Spec2Model ----------------------------
(***************************************************************************)
(* Model of src/main.py: the AI meeting planner.  A free-text description  *)
(* is sent to a text-generation service, the service's answer is cleaned,  *)
(* parsed as JSON and normalised (resolve_date, resolve_time,              *)
(* resolve_priority), the resulting document is inserted into the          *)
(* "meetings" collection, and the collection is listed sorted by           *)
(* (priority rank, date, time), with per-record and bulk deletion.         *)
(*                                                                         *)
(* Python texts are TLA+ strings.  Python values are tagged tuples:        *)
(* <<"str", s>>, <<"int", n>>, <<"bool", b>>, <<"NoneType">>,              *)
(* <<"list", seq>>, <<"dict", f>>.  A raised exception is                  *)
(* <<"raise", name>>.  A dict is a function whose domain is its key set.   *)
(***************************************************************************)
EXTENDS Integers, Sequences, FiniteSets, TLC

VARIABLES
    store,       \* the "meetings" collection: documents in insertion order
    nextId,      \* the next identifier the store assigns (ObjectId)
    user_input,  \* the value of the text input widget "user_meeting_desc"
    cache,       \* st.cache_data of extract_meeting_info: text -> entry
    clock,       \* days elapsed since BaseDate (date.today(), datetime.now())
    display,     \* what the last script run rendered under "Scheduled Meetings"
    last         \* the last button pressed and what the script signalled

vars == <<store, nextId, user_input, cache, clock, display, last>>

---------------------------------------------------------------------------
(* Bounds of the model.                                                    *)

\* documents the store holds at most
MaxStore == 2
\* identifiers the store hands out at most
MaxId == 2
\* days the clock advances at most
MaxClock == 1
\* priority words a generated priority text holds at most
MaxWords == 2
\* documents a pre-existing collection holds at most
MaxLegacy == 3

---------------------------------------------------------------------------
(* Texts.                                                                  *)

Char(s, i) == SubSeq(s, i, i)

\* the least element of a non-empty set of integers
Min(S) == CHOOSE h \in S : \A g \in S : h <= g

Digits == "0123456789"
UpperCase == "ABCDEFGHIJKLMNOPQRSTUVWXYZ"
LowerCase == "abcdefghijklmnopqrstuvwxyz"
\* the printable ASCII characters in code point order: 32 (space) to 95,
\* and 97 to 126 (96, the backtick, cannot be written in a string here)
AsciiTo95 == " !\"#$%&'()*+,-./0123456789:;<=>?@ABCDEFGHIJKLMNOPQRSTUVWXYZ[\\]^_"
AsciiFrom97 == "abcdefghijklmnopqrstuvwxyz{|}~"

IndexIn(c, table) ==
    IF \E i \in 1..Len(table) : Char(table, i) = c
    THEN CHOOSE i \in 1..Len(table) : Char(table, i) = c
    ELSE 0

\* ord(c): tab, line feed and carriage return lie below the printable range
Ord(c) ==
    IF c = "\t" THEN 9
    ELSE IF c = "\n" THEN 10
    ELSE IF c = "\r" THEN 13
    ELSE IF IndexIn(c, AsciiTo95) > 0 THEN IndexIn(c, AsciiTo95) + 31
    ELSE IndexIn(c, AsciiFrom97) + 96

IsDigit(c) == IndexIn(c, Digits) > 0
IsSpace(c) == c \in {" ", "\t", "\n", "\r"}

\* str < str, str <= str: code point order, a proper prefix first
RECURSIVE StrLess(_, _)
StrLess(a, b) ==
    IF Len(b) = 0 THEN FALSE
    ELSE IF Len(a) = 0 THEN TRUE
    ELSE IF Head(a) = Head(b) THEN StrLess(Tail(a), Tail(b))
    ELSE Ord(Head(a)) < Ord(Head(b))

\* str.lower()
LowerChar(c, k) == IF k > 0 THEN Char(LowerCase, k) ELSE c

RECURSIVE Lower(_)
Lower(s) ==
    IF Len(s) = 0 THEN ""
    ELSE LowerChar(Head(s), IndexIn(Head(s), UpperCase)) \o Lower(Tail(s))

\* needle in hay
Contains(hay, needle) ==
    \E i \in 0..(Len(hay) - Len(needle)) : SubSeq(hay, i + 1, i + Len(needle)) = needle

StartsWith(s, i, p) == i + Len(p) - 1 <= Len(s) /\ SubSeq(s, i, i + Len(p) - 1) = p

\* str.strip()
RECURSIVE LStrip(_)
LStrip(s) == IF Len(s) > 0 /\ IsSpace(Head(s)) THEN LStrip(Tail(s)) ELSE s

RECURSIVE RStrip(_)
RStrip(s) ==
    IF Len(s) > 0 /\ IsSpace(Char(s, Len(s))) THEN RStrip(SubSeq(s, 1, Len(s) - 1)) ELSE s

Strip(s) == RStrip(LStrip(s))

\* str.replace(old, new): every non-overlapping occurrence, left to right
\* the first position of s where p starts, 0 when there is none
Find(s, p) ==
    IF \E i \in 1..Len(s) : StartsWith(s, i, p)
    THEN CHOOSE i \in 1..Len(s) : StartsWith(s, i, p) /\ \A j \in 1..(i - 1) : ~StartsWith(s, j, p)
    ELSE 0

RECURSIVE Replace(_, _, _)
RECURSIVE ReplaceAt(_, _, _, _)
Replace(s, old, new) == ReplaceAt(s, old, new, Find(s, old))
ReplaceAt(s, old, new, i) ==
    IF i = 0 THEN s
    ELSE SubSeq(s, 1, i - 1) \o new \o Replace(SubSeq(s, i + Len(old), Len(s)), old, new)

\* str.split(sep) for a one-character sep
RECURSIVE Split(_, _)
RECURSIVE SplitAt(_, _, _)
Split(s, sep) == SplitAt(s, sep, Find(s, sep))
SplitAt(s, sep, i) ==
    IF i = 0 THEN <<s>>
    ELSE <<SubSeq(s, 1, i - 1)>> \o Split(SubSeq(s, i + 1, Len(s)), sep)

\* sep.join(parts)
RECURSIVE Join(_, _)
Join(parts, sep) ==
    IF Len(parts) = 0 THEN ""
    ELSE IF Len(parts) = 1 THEN parts[1]
    ELSE parts[1] \o sep \o Join(Tail(parts), sep)

\* a regular expression made of \d (written d) and literal characters,
\* matched at position i of s
MatchShape(s, i, shape) ==
    /\ i + Len(shape) - 1 <= Len(s)
    /\ \A k \in 1..Len(shape) :
          IF Char(shape, k) = "d" THEN IsDigit(Char(s, i + k - 1))
          ELSE Char(s, i + k - 1) = Char(shape, k)

\* re.search of an alternation of shapes, the alternatives in the order the
\* regex engine tries them: the leftmost position, there the first
\* alternative that matches; "" stands for no match (every shape is
\* non-empty, so a match never is)
MatchAny(s, i, shapes) == \E a \in 1..Len(shapes) : MatchShape(s, i, shapes[a])

\* the first alternative that matches at position i
FirstShape(s, i, shapes) ==
    shapes[Min({a \in 1..Len(shapes) : MatchShape(s, i, shapes[a])})]

MatchAt(s, i, shapes) == SubSeq(s, i, i + Len(FirstShape(s, i, shapes)) - 1)

ReSearch(s, shapes) ==
    IF \E i \in 1..Len(s) : MatchAny(s, i, shapes)
    THEN MatchAt(s, Min({i \in 1..Len(s) : MatchAny(s, i, shapes)}), shapes)
    ELSE ""

---------------------------------------------------------------------------
(* Python values.                                                          *)

PyStr(s) == <<"str", s>>
PyInt(n) == <<"int", n>>
PyBool(b) == <<"bool", b>>
PyNone == <<"NoneType">>
PyList(xs) == <<"list", xs>>
PyDict(f) == <<"dict", f>>
Raise(name) == <<"raise", name>>

TypeOf(v) == v[1]
IsStr(v) == TypeOf(v) = "str"
IsRaise(v) == TypeOf(v) = "raise"

\* bool(v)
Truthy(v) ==
    CASE TypeOf(v) = "str" -> Len(v[2]) > 0
      [] TypeOf(v) = "int" -> v[2] # 0
      [] TypeOf(v) = "bool" -> v[2]
      [] TypeOf(v) = "NoneType" -> FALSE
      [] TypeOf(v) = "list" -> Len(v[2]) > 0
      [] TypeOf(v) = "dict" -> DOMAIN v[2] # {}

\* d.get(key, default) and d.get(key) on a dict's function
Get(d, key, default) == IF key \in DOMAIN d THEN d[key] ELSE default
Get1(d, key) == Get(d, key, PyNone)

---------------------------------------------------------------------------
(* The calendar: date.today(), timedelta(days=1), strftime.                *)

BaseDate == [y |-> 2027, m |-> 12, d |-> 31]

IsLeap(y) == (y % 4 = 0 /\ y % 100 # 0) \/ y % 400 = 0

DaysInMonth(y, m) ==
    IF m = 2 THEN (IF IsLeap(y) THEN 29 ELSE 28)
    ELSE IF m \in {4, 6, 9, 11} THEN 30 ELSE 31

\* date + timedelta(days=1)
NextDay(t) ==
    IF t.d < DaysInMonth(t.y, t.m) THEN [t EXCEPT !.d = t.d + 1]
    ELSE IF t.m < 12 THEN [y |-> t.y, m |-> t.m + 1, d |-> 1]
    ELSE [y |-> t.y + 1, m |-> 1, d |-> 1]

RECURSIVE DateAfter(_, _)
DateAfter(t, n) == IF n = 0 THEN t ELSE DateAfter(NextDay(t), n - 1)

\* date.today() when the clock shows c
Today(c) == DateAfter(BaseDate, c)

DigitStr(n) == Char(Digits, n + 1)
Pad2(n) == DigitStr((n \div 10) % 10) \o DigitStr(n % 10)
Pad4(n) == Pad2(n \div 100) \o Pad2(n % 100)

\* strftime("%Y-%m-%d")
StrfDate(t) == Pad4(t.y) \o "-" \o Pad2(t.m) \o "-" \o Pad2(t.d)

---------------------------------------------------------------------------
(* HELPER FUNCTIONS of the source.                                         *)

HighWords == <<"high", "urgent", "critical", "immediate">>
MediumWords == <<"medium", "normal", "standard">>
LowWords == <<"low", "optional", "later">>

AnyWordIn(words, text) == \E k \in 1..Len(words) : Contains(text, words[k])

\* lines 59-66
\* KeywordPriority without the fallback: a text with no keyword is kept
KeywordOrText(lower_pri) ==
    IF AnyWordIn(HighWords, lower_pri) THEN PyStr("High")
    ELSE IF AnyWordIn(MediumWords, lower_pri) THEN PyStr("Medium")
    ELSE IF AnyWordIn(LowWords, lower_pri) THEN PyStr("Low")
    ELSE PyStr(lower_pri)

\* KeywordPriority with the keyword lists tried in the order Low, Medium, High
KeywordLowFirst(lower_pri) ==
    IF AnyWordIn(LowWords, lower_pri) THEN PyStr("Low")
    ELSE IF AnyWordIn(MediumWords, lower_pri) THEN PyStr("Medium")
    ELSE IF AnyWordIn(HighWords, lower_pri) THEN PyStr("High")
    ELSE PyStr("Medium")

\* lines 59-66: the keyword lists are tried in the order High, Medium, Low
KeywordPriority(lower_pri) ==
    IF AnyWordIn(HighWords, lower_pri) THEN PyStr("High")
    ELSE IF AnyWordIn(MediumWords, lower_pri) THEN PyStr("Medium")
    ELSE IF AnyWordIn(LowWords, lower_pri) THEN PyStr("Low")
    ELSE PyStr("Medium")

resolve_priority(priority_str) ==
    IF ~Truthy(priority_str) THEN PyStr("Medium")
    ELSE IF ~IsStr(priority_str) THEN Raise("AttributeError")
    ELSE KeywordPriority(Lower(priority_str[2]))

DateShapes == <<"dddd-dd-dd", "dd/dd/dddd">>

resolve_date(date_str, c) ==
    IF ~IsStr(date_str) THEN Raise("AttributeError")
    ELSE IF Contains(Lower(date_str[2]), "tomorrow") THEN PyStr(StrfDate(NextDay(Today(c))))
    ELSE IF ReSearch(date_str[2], DateShapes) # ""
         THEN PyStr(Split(ReSearch(date_str[2], DateShapes), "T")[1])
         ELSE PyStr(StrfDate(Today(c)))

TimeShapes == <<"dd:dd:dd", "dd:dd", "d:dd:dd", "d:dd">>

resolve_time(time_str) ==
    IF ~Truthy(time_str) THEN PyStr("12:00")
    ELSE IF ~IsStr(time_str) THEN Raise("TypeError")
    ELSE IF ReSearch(time_str[2], TimeShapes) # ""
         THEN PyStr(Join(SubSeq(Split(ReSearch(time_str[2], TimeShapes), ":"), 1, 2), ":"))
         ELSE PyStr("12:00")

get_priority_color(priority) ==
    IF priority = PyStr("High") THEN "red"
    ELSE IF priority = PyStr("Medium") THEN "orange"
    ELSE IF priority = PyStr("Low") THEN "blue"
    ELSE "gray"

---------------------------------------------------------------------------
(* json.loads, for the JSON texts of the model: objects, arrays, strings   *)
(* with the escapes \" \\ \/ \n \r \t \f, integers, true, false and null.  *)
(* The response alphabet holds no \b or \u escape, no fraction or exponent *)
(* and none of NaN, Infinity, -Infinity.                                   *)

Ok(v, p) == [ok |-> TRUE, val |-> v, pos |-> p]
Fail == [ok |-> FALSE, val |-> PyNone, pos |-> 0]

\* dict[key] = value
Put(f, k, v) == [x \in (DOMAIN f) \cup {k} |-> IF x = k THEN v ELSE f[x]]

\* the end of the whitespace that starts at position i
RECURSIVE SkipWs(_, _)
SkipWs(s, i) == IF i <= Len(s) /\ IsSpace(Char(s, i)) THEN SkipWs(s, i + 1) ELSE i

Unescape(c) ==
    CASE c = "n" -> "\n"
      [] c = "r" -> "\r"
      [] c = "t" -> "\t"
      [] c = "f" -> "\f"
      [] OTHER -> c

\* the characters that end a run of plain string characters
StringStops == {"\"", "\\", "\n", "\r", "\t", "\f"}
Escapes == {"\"", "\\", "/", "n", "r", "t", "f"}

\* the first position from i that holds a stop, 0 when there is none
NextStop(s, i) ==
    IF \E j \in i..Len(s) : Char(s, j) \in StringStops
    THEN Min({j \in i..Len(s) : Char(s, j) \in StringStops})
    ELSE 0

\* the rest of a string whose opening quote has been read; a control
\* character inside a string is an error (strict mode)
RECURSIVE ScanString(_, _, _)
RECURSIVE ScanStringTo(_, _, _, _)
ScanString(s, i, acc) == ScanStringTo(s, i, acc, NextStop(s, i))
ScanStringTo(s, i, acc, j) ==
    IF j = 0 THEN Fail
    ELSE IF Char(s, j) = "\"" THEN Ok(PyStr(acc \o SubSeq(s, i, j - 1)), j + 1)
    ELSE IF Char(s, j) = "\\" /\ j + 1 <= Len(s) /\ Char(s, j + 1) \in Escapes
    THEN ScanString(s, j + 2, acc \o SubSeq(s, i, j - 1) \o Unescape(Char(s, j + 1)))
    ELSE Fail

\* the end of the digits that start at position i
RECURSIVE SkipDigits(_, _)
SkipDigits(s, i) == IF i <= Len(s) /\ IsDigit(Char(s, i)) THEN SkipDigits(s, i + 1) ELSE i

RECURSIVE IntOf(_)
IntOf(ds) == IF Len(ds) = 0 THEN 0
             ELSE 10 * IntOf(SubSeq(ds, 1, Len(ds) - 1)) + (IndexIn(Char(ds, Len(ds)), Digits) - 1)

\* (0|[1-9]\d*) from position a, where it is known to start with a digit
ScanDigits(s, a, sign) ==
    IF Char(s, a) = "0" THEN Ok(PyInt(0), a + 1)
    ELSE Ok(PyInt(sign * IntOf(SubSeq(s, a, SkipDigits(s, a) - 1))), SkipDigits(s, a))

\* -?(0|[1-9]\d*)
ScanNumber(s, i) ==
    IF Char(s, i) = "-"
    THEN (IF i + 1 > Len(s) \/ ~IsDigit(Char(s, i + 1)) THEN Fail ELSE ScanDigits(s, i + 1, 0 - 1))
    ELSE (IF ~IsDigit(Char(s, i)) THEN Fail ELSE ScanDigits(s, i, 1))

RECURSIVE ScanValue(_, _)
RECURSIVE ScanMembers(_, _, _)
RECURSIVE AfterKey(_, _, _)
RECURSIVE AfterMember(_, _, _, _)
RECURSIVE ScanElements(_, _, _)
RECURSIVE AfterElement(_, _, _)

\* the members of an object from position i (at a key's opening quote)
ScanMembers(s, i, f) ==
    IF i > Len(s) \/ Char(s, i) # "\"" THEN Fail
    ELSE AfterKey(s, f, ScanString(s, i + 1, ""))

\* key: the scanned key; then ":" and the value
AfterKey(s, f, key) ==
    IF ~key.ok THEN Fail
    ELSE IF SkipWs(s, key.pos) > Len(s) \/ Char(s, SkipWs(s, key.pos)) # ":" THEN Fail
    ELSE AfterMember(s, f, key.val[2], ScanValue(s, SkipWs(s, SkipWs(s, key.pos) + 1)))

\* v: the scanned value of the key k; then "," and the next member, or "}"
AfterMember(s, f, k, v) ==
    IF ~v.ok THEN Fail
    ELSE IF SkipWs(s, v.pos) > Len(s) THEN Fail
    ELSE IF Char(s, SkipWs(s, v.pos)) = "}" THEN Ok(PyDict(Put(f, k, v.val)), SkipWs(s, v.pos) + 1)
    ELSE IF Char(s, SkipWs(s, v.pos)) = ","
    THEN ScanMembers(s, SkipWs(s, SkipWs(s, v.pos) + 1), Put(f, k, v.val))
    ELSE Fail

\* the elements of an array from position i (at a value)
ScanElements(s, i, xs) == AfterElement(s, xs, ScanValue(s, i))

\* v: the scanned element; then "," and the next element, or "]"
AfterElement(s, xs, v) ==
    IF ~v.ok THEN Fail
    ELSE IF SkipWs(s, v.pos) > Len(s) THEN Fail
    ELSE IF Char(s, SkipWs(s, v.pos)) = "]" THEN Ok(PyList(Append(xs, v.val)), SkipWs(s, v.pos) + 1)
    ELSE IF Char(s, SkipWs(s, v.pos)) = ","
    THEN ScanElements(s, SkipWs(s, SkipWs(s, v.pos) + 1), Append(xs, v.val))
    ELSE Fail

\* an object or an array whose opening bracket has been read; j: the
\* position behind the whitespace that follows it
ScanObject(s, j) ==
    IF j <= Len(s) /\ Char(s, j) = "}" THEN Ok(PyDict(<<>>), j + 1) ELSE ScanMembers(s, j, <<>>)

ScanArray(s, j) ==
    IF j <= Len(s) /\ Char(s, j) = "]" THEN Ok(PyList(<<>>), j + 1) ELSE ScanElements(s, j, <<>>)

ScanValue(s, i) ==
    IF i > Len(s) THEN Fail
    ELSE IF Char(s, i) = "\"" THEN ScanString(s, i + 1, "")
    ELSE IF Char(s, i) = "{" THEN ScanObject(s, SkipWs(s, i + 1))
    ELSE IF Char(s, i) = "[" THEN ScanArray(s, SkipWs(s, i + 1))
    ELSE IF StartsWith(s, i, "null") THEN Ok(PyNone, i + 4)
    ELSE IF StartsWith(s, i, "true") THEN Ok(PyBool(TRUE), i + 4)
    ELSE IF StartsWith(s, i, "false") THEN Ok(PyBool(FALSE), i + 5)
    ELSE ScanNumber(s, i)

\* v: the value scanned at the start of text; anything but whitespace
\* behind it is extra data
WholeText(text, v) ==
    IF v.ok /\ SkipWs(text, v.pos) = Len(text) + 1 THEN v.val ELSE Raise("JSONDecodeError")

\* json.loads(text): the value, or JSONDecodeError
json_loads(text) == WholeText(text, ScanValue(text, SkipWs(text, 1)))

---------------------------------------------------------------------------
(* GEMINI PARSER: extract_meeting_info.                                    *)

\* the backtick of a markdown code fence is written ~ (a string here cannot
\* hold a backtick); no other text of the model holds a ~
Fence == "~~~"

\* re.sub(r"<fence>json|<fence>|\\n", "", text): at each position the first
\* alternative that matches is removed
MarkdownAt(text, i) == StartsWith(text, i, Fence) \/ StartsWith(text, i, "\\n")

\* the length of what the first matching alternative removes at position i
MarkdownLen(text, i) ==
    IF StartsWith(text, i, Fence \o "json") THEN Len(Fence) + 4
    ELSE IF StartsWith(text, i, Fence) THEN Len(Fence)
    ELSE 2

RECURSIVE StripMarkdown(_)
RECURSIVE StripMarkdownAt(_, _)
StripMarkdown(text) ==
    IF \E i \in 1..Len(text) : MarkdownAt(text, i)
    THEN StripMarkdownAt(text, Min({i \in 1..Len(text) : MarkdownAt(text, i)}))
    ELSE text
StripMarkdownAt(text, i) ==
    SubSeq(text, 1, i - 1) \o StripMarkdown(SubSeq(text, i + MarkdownLen(text, i), Len(text)))

\* lines 151-156: the text handed to json.loads
CleanResponse(response_text) ==
    Replace(Replace(Strip(StripMarkdown(Strip(response_text))), "null", "None"), "'", "\"")

\* StripValue without the strip
KeepValue(v) == IF IsStr(v) THEN v ELSE Raise("AttributeError")

\* value.strip() of a value that need not be a text
StripValue(v) == IF IsStr(v) THEN PyStr(Strip(v[2])) ELSE Raise("AttributeError")

\* lines 162-171: the fields are set in this order, and the first exception
\* leaves the try block
Normalized(data, date, time, priority, title, participants, topic) ==
    IF IsRaise(date) THEN date
    ELSE IF IsRaise(time) THEN time
    ELSE IF IsRaise(priority) THEN priority
    ELSE IF IsRaise(title) THEN title
    ELSE IF IsRaise(participants) THEN participants
    ELSE IF IsRaise(topic) THEN topic
    ELSE PyDict(Put(Put(Put(Put(Put(Put(data, "date", date), "time", time),
                 "priority", priority), "title", title),
                 "participants", participants), "topic", topic))

NormalizeFields(data, c) ==
    Normalized(data,
               resolve_date(Get(data, "date", PyStr(StrfDate(Today(c)))), c),
               resolve_time(Get(data, "time", PyStr("12:00"))),
               resolve_priority(Get1(data, "priority")),
               StripValue(Get(data, "title", PyStr("Untitled Meeting"))),
               StripValue(Get(data, "participants", PyStr("Unspecified"))),
               StripValue(Get(data, "topic", PyStr("No topic provided"))))

\* what a call returns and what it signals with st.error
Returned(value, error) == [value |-> value, error |-> error]

\* lines 171-178: info is what the normalisation gave
AfterNormalize(info) ==
    IF IsRaise(info) THEN Returned(PyNone, "ServiceError") ELSE Returned(info, "none")

\* AfterLoads with a JSONDecodeError that is swallowed without st.error
AfterLoadsQuiet(data, c) ==
    IF IsRaise(data) THEN Returned(PyNone, "none")
    ELSE IF TypeOf(data) # "dict" THEN Returned(PyNone, "none")
    ELSE AfterNormalize(NormalizeFields(data[2], c))

\* lines 159-178: data is what json.loads gave
AfterLoads(data, c) ==
    IF IsRaise(data) THEN Returned(PyNone, "ParseError")
    ELSE IF TypeOf(data) # "dict" THEN Returned(PyNone, "none")
    ELSE AfterNormalize(NormalizeFields(data[2], c))

\* the body of extract_meeting_info(text) when the service answers with
\* outcome (<<"text", t>>, or <<"raise", e>> for a failed call) and the
\* clock shows c
extract_body(text, outcome, c) ==
    IF Strip(text) = "" THEN Returned(PyNone, "none")
    ELSE IF IsRaise(outcome) THEN Returned(PyNone, "ServiceError")
    ELSE AfterLoads(json_loads(CleanResponse(outcome[2])), c)

\* @st.cache_data: a call whose text is in the cache returns the stored
\* value and replays the stored st.error; another call runs the body and
\* stores what it returned.  An entry also records the outcome of the call
\* that made it.
CacheHit(text) == text \in DOMAIN cache

CacheEntry(r, outcome) ==
    [value |-> r.value, error |-> r.error, outcome |-> outcome]

\* the cache entry that serves the call extract_meeting_info(text)
extract_meeting_info(text, outcome, c) ==
    IF CacheHit(text) THEN cache[text]
    ELSE CacheEntry(extract_body(text, outcome, c), outcome)

---------------------------------------------------------------------------
(* DISPLAY MEETINGS (SORTED).                                              *)

\* priority_order.get(p, 99)
priority_order(p) ==
    IF p = PyStr("High") THEN 1
    ELSE IF p = PyStr("Medium") THEN 2
    ELSE IF p = PyStr("Low") THEN 3
    ELSE 99

\* SortKey with x.get('priority') in the place of x.get('priority', 'Medium')
SortKeyNoDefault(x) ==
    <<priority_order(Get1(x, "priority")),
      (IF Get1(x, "date") # PyNone THEN Get1(x, "date") ELSE PyStr("9999-01-01"))[2],
      (IF Get1(x, "time") # PyNone THEN Get1(x, "time") ELSE PyStr("23:59"))[2]>>

\* the key of meetings.sort; every date and time of the model's collections
\* is a text or None, so the comparisons never raise
SortKey(x) ==
    <<priority_order(Get(x, "priority", PyStr("Medium"))),
      (IF Get1(x, "date") # PyNone THEN Get1(x, "date") ELSE PyStr("9999-01-01"))[2],
      (IF Get1(x, "time") # PyNone THEN Get1(x, "time") ELSE PyStr("23:59"))[2]>>

\* KeyLess on the first two components only
KeyLessNoTime(a, b) ==
    \/ a[1] < b[1]
    \/ a[1] = b[1] /\ StrLess(a[2], b[2])

\* tuple < tuple
KeyLess(a, b) ==
    \/ a[1] < b[1]
    \/ a[1] = b[1] /\ StrLess(a[2], b[2])
    \/ a[1] = b[1] /\ a[2] = b[2] /\ StrLess(a[3], b[3])

\* list.sort(key=...) is stable: x goes behind every element whose key is
\* not greater
RECURSIVE InsertByKey(_, _)
InsertByKey(sorted, x) ==
    IF Len(sorted) = 0 THEN <<x>>
    ELSE IF KeyLess(SortKey(x), SortKey(Head(sorted))) THEN <<x>> \o sorted
    ELSE <<Head(sorted)>> \o InsertByKey(Tail(sorted), x)

RECURSIVE SortMeetings(_)
SortMeetings(meetings) ==
    IF Len(meetings) = 0 THEN <<>>
    ELSE InsertByKey(SortMeetings(SubSeq(meetings, 1, Len(meetings) - 1)), meetings[Len(meetings)])

\* lines 219-270: list(collection.find()), sorted, one card per meeting
Rendered(collection) == SortMeetings(collection)

---------------------------------------------------------------------------
(* The collection and the user's actions.                                  *)

ObjectId(n) == <<"ObjectId", n>>

\* a dict from a sequence of <<key, value>> pairs
RECURSIVE DictOf(_)
DictOf(pairs) ==
    IF Len(pairs) = 0 THEN <<>>
    ELSE Put(DictOf(SubSeq(pairs, 1, Len(pairs) - 1)), pairs[Len(pairs)][1], pairs[Len(pairs)][2])

\* documents a collection may hold before the program starts: the display
\* code reads every field with a default, so fields may be missing or None
LegacyBodies ==
    { DictOf(<<<<"title", PyStr("a")>>, <<"priority", PyStr("High")>>, <<"date", PyStr("2025-02-01")>>, <<"time", PyStr("10:00")>>>>),
      DictOf(<<<<"title", PyStr("b")>>, <<"priority", PyStr("Medium")>>, <<"date", PyStr("2025-01-01")>>, <<"time", PyStr("09:00")>>>>),
      DictOf(<<<<"title", PyStr("c")>>, <<"priority", PyStr("Medium")>>, <<"date", PyStr("2025-01-01")>>, <<"time", PyStr("09:00")>>>>),
      DictOf(<<<<"title", PyStr("d")>>, <<"priority", PyStr("Low")>>, <<"date", PyStr("2025-01-01")>>>>),
      DictOf(<<<<"title", PyStr("e")>>, <<"date", PyStr("2025-01-01")>>, <<"time", PyStr("10:00")>>>>),
      DictOf(<<<<"title", PyStr("f")>>, <<"priority", PyNone>>, <<"date", PyStr("2025-01-01")>>, <<"time", PyNone>>>>),
      DictOf(<<<<"title", PyStr("g")>>, <<"priority", PyStr("Urgent")>>, <<"time", PyStr("09:00")>>>>),
      DictOf(<<<<"title", PyStr("h")>>, <<"priority", PyStr("High")>>, <<"date", PyNone>>, <<"time", PyStr("09:00")>>>>),
      DictOf(<<<<"title", PyStr("i")>>, <<"priority", PyStr("High")>>, <<"date", PyStr("2025-02-01")>>, <<"time", PyStr("9:30")>>>>) }

\* the collections the program may start with: up to n legacy documents,
\* the store's identifiers 1..n in insertion order
LegacyStores(n) ==
    UNION { { [k \in 1..len |-> Put(bodies[k], "_id", ObjectId(k))] : bodies \in [1..len -> LegacyBodies] }
            : len \in 0..n }

\* the identifiers below this one belong to legacy documents
FirstNewId == MaxLegacy + 1

\* datetime.now().strftime("%Y-%m-%d %H:%M:%S"); the clock is read at 09:00:00
StrfNow(c) == StrfDate(Today(c)) \o " 09:00:00"

\* lines 189-197
final_doc(info, c) ==
    DictOf(<<<<"title", info["title"]>>, <<"participants", info["participants"]>>,
             <<"topic", info["topic"]>>, <<"date", info["date"]>>, <<"time", info["time"]>>,
             <<"priority", info["priority"]>>, <<"created_at", PyStr(StrfNow(c))>>>>)

\* collection.insert_one(doc)
insert_one(collection, doc, id) == Append(collection, Put(doc, "_id", ObjectId(id)))

\* delete_one with the filter {}: the first document of the collection
delete_first(collection, id) ==
    IF Len(collection) = 0 THEN <<>> ELSE Tail(collection)

\* collection.delete_one({"_id": id}): the first document that matches
RECURSIVE delete_one(_, _)
delete_one(collection, id) ==
    IF Len(collection) = 0 THEN <<>>
    ELSE IF Head(collection)["_id"] = id THEN Tail(collection)
    ELSE <<Head(collection)>> \o delete_one(Tail(collection), id)

\* collection.delete_many({})
delete_many(collection) == <<>>

\* the texts the user types
UserTexts == {"", "  ", "sync tomorrow", "budget review"}

\* what the text-generation service may answer to the prompt made of text
ServiceOutcomes(text) ==
    IF text = "sync tomorrow" THEN
    { Raise("ServiceError"),
      <<"text", "Sure! Here is the meeting you asked for.">>,
      <<"text", Fence \o "json\n{\"title\": \"Sync\", \"date\": \"Tomorrow morning\", \"topic\": \"  \"}\n" \o Fence>>,
      <<"text", "{\"title\": \"\", \"participants\": \"Alex\", \"time\": \"9:30\", \"priority\": \"low\", \"topic\": \"Plan\"}">> }
    ELSE
    { <<"text", "{\"title\": \" Q3 Budget Review \", \"participants\": \"Alex, Finance Team\", \"date\": \"2025-10-28T10:00\", \"time\": \"10:00:00\", \"priority\": \"URGENT\", \"topic\": \"Quarterly financials\"}">>,
      <<"text", "{\"title\": \"Retro\", \"participants\": \"Team\", \"date\": \"10/28/2025\", \"time\": \"noon\", \"priority\": \"whenever\", \"topic\": \"Retro\"}">>,
      <<"text", "{\"title\": \"Retro\", \"participants\": \"Team\", \"date\": \"2025-10-28\", \"time\": \"10:00\", \"priority\": 1, \"topic\": \"Retro\"}">> }

\* the collections the program starts with in Spec: an empty one, and one
\* that holds a document without a priority
StartStores ==
    { <<>>,
      <<DictOf(<<<<"_id", ObjectId(1)>>, <<"title", PyStr("e")>>, <<"date", PyStr("2025-01-01")>>, <<"time", PyStr("10:00")>>>>)>> }

Ids(collection) == {collection[k]["_id"] : k \in 1..Len(collection)}

Init ==
    /\ store \in StartStores
    /\ nextId = FirstNewId
    /\ user_input = ""
    /\ cache = <<>>
    /\ clock = 0
    /\ display = <<>>
    /\ last = [op |-> "start"]

\* the page has been opened: the script has run at least once
Opened == last.op # "start"

\* the user opens the page: the first run of the script
Open ==
    /\ ~Opened
    /\ display' = Rendered(store)
    /\ last' = [op |-> "open"]
    /\ UNCHANGED <<store, nextId, user_input, cache, clock>>

\* the user edits the text input; the script reruns
TypeText(text) ==
    /\ Opened
    /\ text # user_input
    /\ user_input' = text
    /\ display' = Rendered(store)
    /\ UNCHANGED <<store, nextId, cache, clock, last>>

\* lines 187-207: entry is what extract_meeting_info returned
AddMeeting(entry, hit) ==
    /\ Opened
    /\ cache' = Put(cache, user_input, entry)
    /\ IF Truthy(entry.value)
       THEN /\ Len(store) < MaxStore
            /\ nextId < FirstNewId + MaxId
            /\ store' = insert_one(store, final_doc(entry.value[2], clock), nextId)
            /\ nextId' = nextId + 1
            /\ user_input' = ""
            /\ last' = [op |-> "submit", text |-> user_input, hit |-> hit, at |-> clock,
                        value |-> entry.value, error |-> entry.error, signal |-> "toast"]
       ELSE /\ UNCHANGED <<store, nextId, user_input>>
            /\ last' = [op |-> "submit", text |-> user_input, hit |-> hit, at |-> clock,
                        value |-> entry.value, error |-> entry.error, signal |-> entry.error]
    /\ display' = Rendered(store')
    /\ UNCHANGED clock

\* lines 183-210, then the rerun (or the rest of the script): the button
\* "Confirm & Add Meeting"
Submit(outcome) ==
    IF Strip(user_input) = ""
    THEN /\ Opened
         /\ last' = [op |-> "submit", text |-> user_input, hit |-> FALSE, at |-> clock,
                     value |-> PyNone, error |-> "none", signal |-> "warning"]
         /\ display' = Rendered(store)
         /\ UNCHANGED <<store, nextId, user_input, cache, clock>>
    ELSE AddMeeting(extract_meeting_info(user_input, outcome, clock), CacheHit(user_input))

\* lines 262-265: the "Delete" button of the k-th card
DeleteOne(k) ==
    /\ k \in 1..Len(display)
    /\ store' = delete_one(store, display[k]["_id"])
    /\ display' = Rendered(store')
    /\ last' = [op |-> "delete", id |-> display[k]["_id"]]
    /\ UNCHANGED <<nextId, user_input, cache, clock>>

\* lines 279-282: the sidebar button exists only when there are meetings
ClearAll ==
    /\ Len(display) > 0
    /\ store' = delete_many(store)
    /\ display' = Rendered(store')
    /\ last' = [op |-> "clear"]
    /\ UNCHANGED <<nextId, user_input, cache, clock>>

\* a rerun of the script with no button pressed
Render ==
    /\ Opened
    /\ display' = Rendered(store)
    /\ UNCHANGED <<store, nextId, user_input, cache, clock, last>>

\* a day passes
Tick ==
    /\ clock < MaxClock
    /\ clock' = clock + 1
    /\ UNCHANGED <<store, nextId, user_input, cache, display, last>>

Next ==
    \/ Open
    \/ \E text \in UserTexts : TypeText(text)
    \/ \E outcome \in ServiceOutcomes(user_input) : Submit(outcome)
    \/ \E k \in 1..MaxStore : DeleteOne(k)
    \/ ClearAll
    \/ Render
    \/ Tick

Spec == Init /\ [][Next]_vars

---------------------------------------------------------------------------
(* The listing alone, over the collections the program may start with.     *)

InitSort ==
    /\ store \in LegacyStores(MaxLegacy)
    /\ nextId = FirstNewId
    /\ user_input = ""
    /\ cache = <<>>
    /\ clock = 0
    /\ display = <<>>
    /\ last = [op |-> "start"]

NextSort ==
    \/ Open
    \/ \E k \in 1..MaxLegacy : DeleteOne(k)
    \/ ClearAll
    \/ Render

SpecSort == InitSort /\ [][NextSort]_vars

---------------------------------------------------------------------------
(* resolve_priority alone, over generated priority values.                 *)

PriorityVocabulary ==
    { "high", "URGENT", "Critical", "immediately", "medium", "Normal",
      "standard", "low", "Optional", "later", "slowly", "asap", "whenever" }

\* None, and the texts of up to MaxWords words
PriorityArgs ==
    {PyNone} \cup
    { PyStr(Join(ws, " ")) : ws \in UNION { [1..k -> PriorityVocabulary] : k \in 0..MaxWords } }

InitPriority ==
    /\ store = <<>>
    /\ nextId = FirstNewId
    /\ user_input = ""
    /\ cache = <<>>
    /\ clock = 0
    /\ display = <<>>
    /\ last \in { [op |-> "call", arg |-> a] : a \in PriorityArgs }

CallResolvePriority ==
    /\ last.op = "call"
    /\ last' = [op |-> "return", arg |-> last.arg, result |-> resolve_priority(last.arg)]
    /\ UNCHANGED <<store, nextId, user_input, cache, clock, display>>

SpecPriority == InitPriority /\ [][CallResolvePriority]_vars

---------------------------------------------------------------------------
(* extract_meeting_info alone, over generated service answers.             *)

\* the JSON texts of a field's value; "" stands for a missing key
TitleTexts == {"", "\"\"", "\"   \"", "\" Q3 Review \"", "7", "\"Alex's sync\""}
ParticipantsTexts == {"", "\"\"", "\"Alex, Bo \""}
TopicTexts == {"", "\" \"", "\"Plan\"", "null"}
PriorityTexts == {"\"High\"", "1"}

JsonMember(m) == "\"" \o m[1] \o "\": " \o m[2]

\* the JSON object of the members that have a value
RECURSIVE JsonMembers(_)
JsonMembers(ms) ==
    IF Len(ms) = 0 THEN ""
    ELSE IF Head(ms)[2] = "" THEN JsonMembers(Tail(ms))
    ELSE IF JsonMembers(Tail(ms)) = "" THEN JsonMember(Head(ms))
    ELSE JsonMember(Head(ms)) \o ", " \o JsonMembers(Tail(ms))

JsonObject(ms) == "{" \o JsonMembers(ms) \o "}"

WideOutcomes ==
    { <<"text", JsonObject(<<<<"title", t>>, <<"participants", p>>, <<"topic", o>>,
                             <<"date", "\"2025-10-28\"">>, <<"time", "\"10:00\"">>,
                             <<"priority", y>>>>)>>
      : t \in TitleTexts, p \in ParticipantsTexts, o \in TopicTexts, y \in PriorityTexts }

InitExtract ==
    /\ store = <<>>
    /\ nextId = FirstNewId
    /\ user_input = "budget review"
    /\ cache = <<>>
    /\ clock \in 0..MaxClock
    /\ display = <<>>
    /\ last \in { [op |-> "call", outcome |-> o] : o \in WideOutcomes }

CallExtract ==
    /\ last.op = "call"
    /\ cache' = Put(cache, user_input, extract_meeting_info(user_input, last.outcome, clock))
    /\ last' = [op |-> "return", outcome |-> last.outcome, result |-> cache'[user_input]]
    /\ UNCHANGED <<store, nextId, user_input, clock, display>>

SpecExtract == InitExtract /\ [][CallExtract]_vars

---------------------------------------------------------------------------
(* The claims.                                                             *)

Labels == {PyStr("High"), PyStr("Medium"), PyStr("Low")}

\* the documents this run's submits inserted
BySubmit(doc) == doc["_id"][2] >= FirstNewId

\* every answer text of Spec, and a table of what json.loads makes of each
\* (computed once)
AnswerTexts == {o[2] : o \in {x \in UNION {ServiceOutcomes(t) : t \in UserTexts} : ~IsRaise(x)}}
ParsedTable == [a \in AnswerTexts |-> json_loads(CleanResponse(a))]

\* a table of what the normalisation makes of each answer that is a JSON
\* object, at each clock
NormalizedTable ==
    [a \in {x \in AnswerTexts : TypeOf(ParsedTable[x]) = "dict"}, c \in 0..MaxClock |->
        NormalizeFields(ParsedTable[a][2], c)]

\* what json.loads made of the answer that the cache entry of text records
ParsedAnswer(text) == ParsedTable[cache[text].outcome[2]]

\* C1: after any sequence of submit, delete-one and clear-all actions, with
\* any answer of the service, every document a submit inserted has a
\* priority that is exactly one of High, Medium, Low.
C1_SubmittedPriorityIsALabel ==
    \A k \in 1..Len(store) : BySubmit(store[k]) => Get1(store[k], "priority") \in Labels

\* C1 witness: a submit has inserted a document whose answer held a priority
\* text with no keyword, stored as Medium.
C1_Witness ==
    /\ last.op = "submit" /\ last.signal = "toast"
    /\ Get1(ParsedAnswer(last.text)[2], "priority") = PyStr("whenever")
    /\ \E k \in 1..Len(store) : BySubmit(store[k]) /\ store[k]["priority"] = PyStr("Medium")

\* the composite key of the listing, as C2 states it; C2 says nothing about
\* the rank of a priority that is missing or no label, which C3 settles
C2Rank(doc) ==
    IF "priority" \notin DOMAIN doc THEN 2
    ELSE IF doc["priority"] = PyStr("High") THEN 1
    ELSE IF doc["priority"] = PyStr("Medium") THEN 2
    ELSE IF doc["priority"] = PyStr("Low") THEN 3
    ELSE 99

C2Date(doc) == IF "date" \in DOMAIN doc /\ IsStr(doc["date"]) THEN doc["date"][2] ELSE "9999-01-01"
C2Time(doc) == IF "time" \in DOMAIN doc /\ IsStr(doc["time"]) THEN doc["time"][2] ELSE "23:59"

C2KeyLeq(a, b) ==
    \/ C2Rank(a) < C2Rank(b)
    \/ C2Rank(a) = C2Rank(b) /\ StrLess(C2Date(a), C2Date(b))
    \/ C2Rank(a) = C2Rank(b) /\ C2Date(a) = C2Date(b) /\ StrLess(C2Time(a), C2Time(b))
    \/ C2Rank(a) = C2Rank(b) /\ C2Date(a) = C2Date(b) /\ C2Time(a) = C2Time(b)

C2KeyEq(a, b) == C2KeyLeq(a, b) /\ C2KeyLeq(b, a)

\* the position of the document with identifier id in the collection
PositionOf(collection, id) == CHOOSE k \in 1..Len(collection) : collection[k]["_id"] = id

\* C2: once the page is open, the displayed list is a permutation of the stored documents in
\* ascending order of (priority rank, date, time), strings compared
\* lexically, a missing date counting as 9999-01-01 and a missing time as
\* 23:59; documents with equal keys keep their stored order.
C2_DisplaySortedStable ==
    Opened =>
    /\ Len(display) = Len(store)
    /\ \A k \in 1..Len(store) : \E j \in 1..Len(display) : display[j] = store[k]
    /\ \A j \in 1..Len(display) : \E k \in 1..Len(store) : display[j] = store[k]
    /\ \A j \in 1..(Len(display) - 1) : C2KeyLeq(display[j], display[j + 1])
    /\ \A i \in 1..Len(display) : \A j \in (i + 1)..Len(display) :
          C2KeyEq(display[i], display[j]) =>
              PositionOf(store, display[i]["_id"]) < PositionOf(store, display[j]["_id"])

\* C2 witness: on the open page, three stored documents are displayed in another order, two
\* of them with equal keys, and one with a one-digit hour behind a later one.
C2_Witness ==
    /\ Opened
    /\ Len(store) = 3 /\ display # store
    /\ \E i \in 1..2 : C2KeyEq(display[i], display[i + 1])
    /\ \E i \in 1..2 : C2Time(display[i]) = "10:00" /\ C2Time(display[i + 1]) = "9:30"

NoPriority(doc) == "priority" \notin DOMAIN doc
HasLabel(doc) == "priority" \in DOMAIN doc /\ doc["priority"] \in Labels
OtherPriority(doc) == "priority" \in DOMAIN doc /\ doc["priority"] \notin Labels

\* C3 as stated: a displayed document with no priority field comes after
\* every document whose priority is High, Medium or Low.
C3_MissingPriorityLast ==
    \A i \in 1..Len(display) : \A j \in 1..Len(display) :
        NoPriority(display[i]) /\ HasLabel(display[j]) => j < i

\* C3 as amended: a document with no priority field is ranked as Medium
\* (behind every High, before every Low document); a document whose
\* priority is present and no label is ranked last, behind every document
\* whose priority is High, Medium or Low and behind every one without a
\* priority field.
C3_MissingIsMediumOtherLast ==
    \A i \in 1..Len(display) : \A j \in 1..Len(display) :
        /\ NoPriority(display[i]) /\ display[j]["_id"] # display[i]["_id"] /\ HasLabel(display[j]) =>
              IF display[j]["priority"] = PyStr("High") THEN j < i
              ELSE IF display[j]["priority"] = PyStr("Low") THEN i < j
              ELSE (i < j) = \/ C2KeyLeq(display[i], display[j]) /\ ~C2KeyEq(display[i], display[j])
                             \/ /\ C2KeyEq(display[i], display[j])
                                /\ PositionOf(store, display[i]["_id"]) < PositionOf(store, display[j]["_id"])
        /\ OtherPriority(display[i]) /\ (HasLabel(display[j]) \/ NoPriority(display[j])) => j < i

\* C3 witness: a document with no priority field is displayed before a Low
\* document and behind a High one, and a document with another priority last.
C3_Witness ==
    /\ Opened
    /\ Len(display) = 3
    /\ \E i \in 1..3 : \E j \in 1..3 : \E k \in 1..3 :
          /\ i < j /\ NoPriority(display[i]) /\ Get1(display[j], "priority") = PyStr("Low")
          /\ OtherPriority(display[k]) /\ k = 3

\* C4 as stated: every date a submit stored has the shape YYYY-MM-DD.
C4_SubmittedDateShape ==
    \A k \in 1..Len(store) : BySubmit(store[k]) =>
        /\ IsStr(Get1(store[k], "date"))
        /\ Len(store[k]["date"][2]) = 10
        /\ MatchShape(store[k]["date"][2], 1, "dddd-dd-dd")

\* C5 as stated: every time a submit stored has the shape HH:MM.
C5_SubmittedTimeShape ==
    \A k \in 1..Len(store) : BySubmit(store[k]) =>
        /\ IsStr(Get1(store[k], "time"))
        /\ Len(store[k]["time"][2]) = 5
        /\ MatchShape(store[k]["time"][2], 1, "dd:dd")

\* the answer cannot be parsed as JSON
JsonFails(outcome) == ~IsRaise(outcome) /\ IsRaise(ParsedTable[outcome[2]])

\* the service call raises, or a normalisation step does in a call made on
\* day c or before
OtherFails(outcome, c) ==
    \/ IsRaise(outcome)
    \/ /\ ~JsonFails(outcome)
       /\ TypeOf(ParsedTable[outcome[2]]) = "dict"
       /\ \E d \in 0..c : IsRaise(NormalizedTable[outcome[2], d])

\* a step that may be the submit of a text that is not blank (every such
\* step passes)
MaybeSubmit ==
    /\ Strip(user_input) # ""
    /\ last'.op = "submit" /\ last'.text = user_input /\ last'.at = clock
    /\ user_input \in DOMAIN cache'

\* C6: a submit whose extraction fails (the answer is no JSON: ParseError;
\* the call or a normalisation step raises: ServiceError) returns absent,
\* signals the error, and leaves the store as it was.  The call that
\* decides the submit is the one the cache entry records.
C6_FailedSubmitKeepsStore ==
    [][MaybeSubmit /\ (JsonFails(cache'[user_input].outcome)
                       \/ OtherFails(cache'[user_input].outcome, clock)) =>
          \A outcome \in ServiceOutcomes(user_input) : Submit(outcome) =>
             /\ last'.value = PyNone
             /\ last'.signal = (IF JsonFails(cache'[user_input].outcome) THEN "ParseError"
                                ELSE "ServiceError")
             /\ store' = store]_vars

\* C6 witness: a submit has failed on a normalisation step (a priority that
\* is no text) while the store held a document, and another on the parse.
C6_Witness ==
    /\ last.op = "submit" /\ last.signal = "ServiceError" /\ ~last.hit
    /\ ~IsRaise(cache[last.text].outcome)
    /\ Len(store) > 0
    /\ \E t \in DOMAIN cache : cache[t].error = "ParseError"

Placeholder(field) ==
    CASE field = "title" -> PyStr("Untitled Meeting")
      [] field = "participants" -> PyStr("Unspecified")
      [] field = "topic" -> PyStr("No topic provided")

TextFields == {"title", "participants", "topic"}

\* the call of SpecExtract has returned a result
ExtractReturned == last.op = "return" /\ TypeOf(last.result.value) = "dict"

\* what json.loads made of the answer of the call of SpecExtract
ExtractParsed == json_loads(CleanResponse(last.outcome[2]))[2]

\* the call of SpecExtract has returned and json.loads gave an object
ExtractParsedObject ==
    last.op = "return" /\ TypeOf(json_loads(CleanResponse(last.outcome[2]))) = "dict"

\* C7 as stated: in a returned result, title, participants and topic are
\* the placeholder when the key is absent or its value is an empty or
\* whitespace-only text, and the trimmed value otherwise.
C7_PlaceholderWhenAbsentOrEmpty ==
    ExtractReturned =>
        \A f \in TextFields :
            IF f \notin DOMAIN ExtractParsed THEN last.result.value[2][f] = Placeholder(f)
            ELSE /\ IsStr(ExtractParsed[f])
                 /\ last.result.value[2][f] =
                       (IF Strip(ExtractParsed[f][2]) = "" THEN Placeholder(f)
                        ELSE PyStr(Strip(ExtractParsed[f][2])))

\* C7 as amended: in a returned result, title, participants and topic are
\* the placeholder when the key is absent; otherwise the value is a text and
\* the field is that text trimmed, the empty text when the value is empty or
\* whitespace-only.  An answer in which one of the three has a value that
\* is no text returns absent with a ServiceError.
C7_PlaceholderOnlyWhenAbsent ==
    /\ ExtractReturned =>
          \A f \in TextFields :
              IF f \notin DOMAIN ExtractParsed THEN last.result.value[2][f] = Placeholder(f)
              ELSE /\ IsStr(ExtractParsed[f])
                   /\ last.result.value[2][f] = PyStr(Strip(ExtractParsed[f][2]))
    /\ ExtractParsedObject /\ (\E f \in TextFields \cap DOMAIN ExtractParsed : ~IsStr(ExtractParsed[f])) =>
          last.result.value = PyNone /\ last.result.error = "ServiceError"

\* C7 witness: a result whose title was whitespace-only and is returned
\* empty, whose participants were trimmed and whose topic key was absent.
C7_Witness ==
    /\ ExtractReturned
    /\ Get1(ExtractParsed, "title") = PyStr("   ") /\ last.result.value[2]["title"] = PyStr("")
    /\ Get1(ExtractParsed, "participants") = PyStr("Alex, Bo ")
    /\ last.result.value[2]["participants"] = PyStr("Alex, Bo")
    /\ "topic" \notin DOMAIN ExtractParsed
    /\ last.result.value[2]["topic"] = PyStr("No topic provided")

C8High == {"high", "urgent", "critical", "immediate"}
C8Medium == {"medium", "normal", "standard"}
C8Low == {"low", "optional", "later"}

C8Matches(arg, words) == \E w \in words : Contains(Lower(arg[2]), w)

\* C8: resolve_priority returns the label of the first keyword set, in the
\* order High, Medium, Low, that has a case-insensitive substring match;
\* Medium when no set matches and for absent or empty input.
C8_FirstKeywordSetWins ==
    last.op = "return" =>
        last.result =
            (IF last.arg = PyNone \/ last.arg = PyStr("") THEN PyStr("Medium")
             ELSE IF C8Matches(last.arg, C8High) THEN PyStr("High")
             ELSE IF C8Matches(last.arg, C8Medium) THEN PyStr("Medium")
             ELSE IF C8Matches(last.arg, C8Low) THEN PyStr("Low")
             ELSE PyStr("Medium"))

\* C8 witness: a text with a Low keyword followed by a High keyword in upper
\* case has returned High.
C8_Witness == last.op = "return" /\ last.arg = PyStr("later URGENT") /\ last.result = PyStr("High")

\* the collection without the document that has the identifier id
RECURSIVE Without(_, _)
Without(collection, id) ==
    IF Len(collection) = 0 THEN <<>>
    ELSE IF Head(collection)["_id"] = id THEN Without(Tail(collection), id)
    ELSE <<Head(collection)>> \o Without(Tail(collection), id)

\* C9: a document that is in the store before and after a step has the same
\* fields in both; a submit that adds a meeting appends exactly one document
\* with a fresh identifier; delete-one removes exactly the document of the
\* card and keeps the others; clear-all empties the store; opening the
\* page, typing, a rerun and the passing of a day leave the store alone.
C9_RecordsImmutable ==
    [][/\ \A i \in 1..Len(store) : \A j \in 1..Len(store') :
             store[i]["_id"] = store'[j]["_id"] => store[i] = store'[j]
       /\ MaybeSubmit /\ last'.signal = "toast" =>
             \A outcome \in ServiceOutcomes(user_input) : Submit(outcome) =>
                /\ Len(store') = Len(store) + 1
                /\ SubSeq(store', 1, Len(store)) = store
                /\ store'[Len(store')]["_id"] \notin Ids(store)
                /\ store'[Len(store')]["_id"] = ObjectId(nextId)
                /\ nextId' > nextId
       /\ last'.op = "delete" /\ (last' # last \/ store' # store) =>
             \A k \in 1..Len(display) : DeleteOne(k) =>
                /\ display[k]["_id"] \in Ids(store)
                /\ store' = Without(store, display[k]["_id"])
                /\ Len(store') = Len(store) - 1
       /\ last'.op = "clear" /\ ClearAll => store' = <<>>
       /\ store' # store => ~(Open \/ Render \/ Tick \/ (\E text \in UserTexts : TypeText(text)))]_vars

\* C9 witness: the first of two cards has been deleted and the document of
\* the other, which a submit inserted, is still in the store.
C9_Witness ==
    /\ last.op = "delete"
    /\ Len(store) = 1 /\ BySubmit(store[1])
    /\ last.id[2] > store[1]["_id"][2]

\* C10 as stated: a submit served from the cache returns what a call that
\* is not cached, made at that moment with the same text and the same
\* answer, would return; and a text whose earlier call ended in an error is
\* sent to the service again.
C10_CacheIsTransparent ==
    last.op = "submit" /\ last.hit =>
        /\ Returned(last.value, last.error) = extract_body(last.text, cache[last.text].outcome, last.at)
        /\ cache[last.text].error = "none"

=============================================================================
